---- MODULE Spec2Model ----
(***************************************************************************)
(* Model of crypto-backend's /analyze handler (src/main.py): the two       *)
(* lru_cache'd CoinGecko lookups, the pandas indicator pipeline (SMA, EMA, *)
(* Bollinger bands, RSI, MACD, signal) and the AnalysisResponse it builds. *)
(*                                                                         *)
(* float64 values are modelled as fixed-point numbers: an integer count of *)
(* 1/Unit, every arithmetic result rounded to the nearest unit (ties to    *)
(* even).  NaN, +inf and Python's None are separate tagged values, so that *)
(* "undefined", "zero" and "no value" stay distinguishable.  Sequences are *)
(* 1-based: position i of the source is index i + 1 here.                  *)
(***************************************************************************)
EXTENDS Integers, Sequences, FiniteSets, TLC

\* ------------------------------------------------------------------ bounds
\* Longest price series the upstream may return.
MaxLen == 15

\* ------------------------------------------------------- program constants
MinSamples == 10
Window == 7
EmaSpan == 7
BandWidth == 2
Period == 14
SpanShort == 12
SpanLong == 26
SpanSignal == 9
FineDigits == 4
CoarseDigits == 2

\* Fixed-point resolution of a modelled float: Unit units make 1.0.
Unit == 100000
\* pd.to_datetime(unit="ms") / strftime("%Y-%m-%d"): milliseconds in a day.
MsPerDay == 86400000

\* -------------------------------------------------------------------- state
VARIABLES
  fillnaRaises,  \* whether the installed pandas refuses fillna(value=None)
  idCache,       \* lru_cache of resolve_symbol_to_id: symbol -> coin id
  chartCache,    \* lru_cache of get_market_chart: coin id -> payload
  last,          \* the latest /analyze call: symbol, prices read, outcome
  df             \* the DataFrame that call built (NoFrame if it built none)

vars == <<fillnaRaises, idCache, chartCache, last, df>>

\* ------------------------------------------------------------ float values
Float(v) == [tag |-> "float", val |-> v]
NaN == [tag |-> "nan", val |-> 0]
PosInf == [tag |-> "inf", val |-> 1]
None == [tag |-> "None", val |-> 0]
Ratio(n, d) == [tag |-> "ratio", val |-> n, den |-> d]
IsNum(x) == x.tag = "float"

\* n / d rounded to the nearest integer, ties to even (d > 0).
RoundDiv(n, d) ==
  LET q == n \div d
      r == n % d
  IN  IF 2 * r < d THEN q
      ELSE IF 2 * r > d THEN q + 1
      ELSE IF q % 2 = 0 THEN q ELSE q + 1

RECURSIVE Pow10(_)
Pow10(n) == IF n = 0 THEN 1 ELSE 10 * Pow10(n - 1)

\* round(x, ndigits) / Series.round(ndigits): NaN stays NaN.
Round(x, ndigits) ==
  IF ~IsNum(x) THEN x
  ELSE LET q == Unit \div Pow10(ndigits)
       IN  Float(RoundDiv(x.val, q) * q)

FAdd(a, b) == IF IsNum(a) /\ IsNum(b) THEN Float(a.val + b.val) ELSE NaN
FSub(a, b) == IF IsNum(a) /\ IsNum(b) THEN Float(a.val - b.val) ELSE NaN
FScale(k, a) == IF IsNum(a) THEN Float(k * a.val) ELSE NaN
FNeg(a) == IF IsNum(a) THEN Float(-a.val) ELSE NaN

\* Largest t in lo..hi with t * t <= n.
RECURSIVE IsqrtIn(_, _, _)
IsqrtIn(n, lo, hi) ==
  IF lo >= hi THEN lo
  ELSE LET mid == (lo + hi + 1) \div 2
       IN  IF mid * mid <= n THEN IsqrtIn(n, mid, hi)
           ELSE IsqrtIn(n, lo, mid - 1)

Isqrt(n) == IsqrtIn(n, 0, IF n < 46340 THEN n ELSE 46340)

\* The first n values of f as a sequence (a column, computed once).
RECURSIVE Column(_, _)
Column(f, n) == IF n = 0 THEN <<>> ELSE Append(Column(f, n - 1), f[n])

\* ------------------------------------------------------- pandas primitives
RECURSIVE SumVals(_, _, _)
SumVals(s, lo, hi) ==
  IF lo > hi THEN 0 ELSE s[hi].val + SumVals(s, lo, hi - 1)

RECURSIVE SumSqOff(_, _, _, _)
SumSqOff(s, lo, hi, ref) ==
  IF lo > hi THEN 0
  ELSE (s[hi].val - ref) * (s[hi].val - ref) + SumSqOff(s, lo, hi - 1, ref)

AllNum(s, lo, hi) == \A j \in lo..hi : IsNum(s[j])

\* Mutant of RollingMean: min_periods = 1, a mean over whatever the window
\* holds so far.
RollingMeanMinPeriodsOne(s, w) ==
  Column([i \in 1..Len(s) |->
     LET lo == IF i < w THEN 1 ELSE i - w + 1
     IN  IF ~AllNum(s, lo, i) THEN NaN
         ELSE Float(RoundDiv(SumVals(s, lo, i), i - lo + 1))], Len(s))

\* Series.rolling(window=w).mean(): min_periods = w, so the first w - 1
\* entries, and any window holding a NaN, are NaN.
RollingMean(s, w) ==
  Column([i \in 1..Len(s) |->
     IF i < w THEN NaN
     ELSE IF ~AllNum(s, i - w + 1, i) THEN NaN
     ELSE Float(RoundDiv(SumVals(s, i - w + 1, i), w))], Len(s))

\* w * (w - 1) times the sample variance of s[lo..hi], in units squared
\* (computed on offsets from s[lo], which leaves the variance unchanged).
VarNum(s, lo, hi) ==
  LET w == hi - lo + 1
      ref == s[lo].val
      sy == SumVals(s, lo, hi) - w * ref
      syy == SumSqOff(s, lo, hi, ref)
  IN  w * syy - sy * sy

\* Series.rolling(window=w).std(): sample standard deviation (ddof = 1).
RollingStd(s, w) ==
  Column([i \in 1..Len(s) |->
     IF i < w THEN NaN
     ELSE IF ~AllNum(s, i - w + 1, i) THEN NaN
     ELSE Float((Isqrt((4 * VarNum(s, i - w + 1, i)) \div (w * (w - 1))) + 1)
                  \div 2)], Len(s))

\* Mutant of Ewm: Wilder's smoothing, alpha = 1 / span.
RECURSIVE EwmWilderFrom(_, _, _)
EwmWilderFrom(s, span, acc) ==
  IF Len(acc) >= Len(s) THEN acc
  ELSE LET i == Len(acc) + 1
           v == IF i = 1 THEN s[1]
                ELSE Float(RoundDiv(s[i].val + (span - 1) * acc[i - 1].val, span))
       IN  EwmWilderFrom(s, span, Append(acc, v))

EwmWilder(s, span) == EwmWilderFrom(s, span, <<>>)

\* Series.ewm(span=span, adjust=False).mean(): alpha = 2 / (span + 1),
\* seeded with the first sample.  Its inputs (price, macd) hold no NaN.
RECURSIVE EwmFrom(_, _, _)
EwmFrom(s, span, acc) ==
  IF Len(acc) >= Len(s) THEN acc
  ELSE LET i == Len(acc) + 1
           v == IF i = 1 THEN s[1]
                ELSE Float(RoundDiv(2 * s[i].val + (span - 1) * acc[i - 1].val,
                                    span + 1))
       IN  EwmFrom(s, span, Append(acc, v))

Ewm(s, span) == EwmFrom(s, span, <<>>)

\* Series.diff(): NaN at the first position.
Diff(s) ==
  Column([i \in 1..Len(s) |-> IF i = 1 THEN NaN ELSE FSub(s[i], s[i - 1])],
         Len(s))

\* delta.where(delta > 0, 0): a NaN compares False and is replaced too.
WherePositive(s) ==
  Column([i \in 1..Len(s) |->
            IF IsNum(s[i]) /\ s[i].val > 0 THEN s[i] ELSE Float(0)], Len(s))

\* delta.where(delta < 0, 0)
WhereNegative(s) ==
  Column([i \in 1..Len(s) |->
            IF IsNum(s[i]) /\ s[i].val < 0 THEN s[i] ELSE Float(0)], Len(s))

\* Mutant of FDiv: a zero divisor guarded by answering 0.
FDivZeroGuard(g, l) ==
  IF ~IsNum(g) \/ ~IsNum(l) THEN NaN
  ELSE IF l.val = 0 THEN Ratio(0, 1)
  ELSE Ratio(g.val, l.val)

\* gain / loss: float division never raises; x/0 is inf, 0/0 is NaN.  The
\* quotient is kept as an exact ratio (a float's precision is relative).
\* The loss mean may be -0.0, making the quotient -inf: RsiOf gives 100 for
\* either sign, so one infinity is kept.
FDiv(g, l) ==
  IF ~IsNum(g) \/ ~IsNum(l) THEN NaN
  ELSE IF l.val = 0 THEN (IF g.val = 0 THEN NaN ELSE PosInf)
  ELSE Ratio(g.val, l.val)

\* 100 - (100 / (1 + rs))
RsiOf(rs) ==
  IF rs.tag = "nan" THEN NaN
  ELSE IF rs.tag = "inf" THEN Float(100 * Unit)
  ELSE LET d == rs.val + rs.den
           t == ((100 * Unit) \div 1000) * rs.den
           q == t \div d
           r == t % d
       IN  Float(100 * Unit - (1000 * q + RoundDiv(1000 * r, d)))

\* ------------------------------------------------------------- indicators
\* Rolling means of the gains and of the losses (compute_rsi, lines 81-83).
RsiGain(series, period) == RollingMean(WherePositive(Diff(series)), period)

RsiLoss(series, period) ==
  LET neg == WhereNegative(Diff(series))
  IN  RollingMean(Column([i \in 1..Len(series) |-> FNeg(neg[i])], Len(series)),
                  period)

compute_rsi(series, period) ==
  LET gain == RsiGain(series, period)
      loss == RsiLoss(series, period)
  IN  Column([i \in 1..Len(series) |-> RsiOf(FDiv(gain[i], loss[i]))],
             Len(series))

compute_macd(series, span_short, span_long, span_signal) ==
  LET ema_short == Ewm(series, span_short)
      ema_long == Ewm(series, span_long)
      macd == Column([i \in 1..Len(series) |-> FSub(ema_short[i], ema_long[i])],
                     Len(series))
  IN  [macd |-> macd, signal |-> Ewm(macd, span_signal)]

\* The DataFrame of lines 99-107 (macd and signal are kept beside it).
Frame(prices) ==
  LET n == Len(prices)
      price == Column([i \in 1..n |-> Float(prices[i].price)], n)
      sma == RollingMean(price, Window)
      std == RollingStd(price, Window)
      m == compute_macd(price, SpanShort, SpanLong, SpanSignal)
  IN  [timestamp |-> Column([i \in 1..n |-> prices[i].timestamp], n),
       price |-> price,
       sma |-> sma,
       ema |-> Ewm(price, EmaSpan),
       bb_upper |->
         Column([i \in 1..n |-> FAdd(sma[i], FScale(BandWidth, std[i]))], n),
       bb_lower |->
         Column([i \in 1..n |-> FSub(sma[i], FScale(BandWidth, std[i]))], n),
       rsi |-> compute_rsi(price, Period),
       macd |-> m.macd,
       signal |-> m.signal]

NoFrame == [absent |-> TRUE]

\* df.replace([inf, -inf], None): an infinite entry becomes None.
ReplaceInf(col) ==
  Column([i \in 1..Len(col) |-> IF col[i].tag = "inf" THEN None ELSE col[i]],
         Len(col))

Replaced(frame) ==
  [frame EXCEPT !.price = ReplaceInf(frame.price), !.sma = ReplaceInf(frame.sma),
             !.ema = ReplaceInf(frame.ema), !.bb_upper = ReplaceInf(frame.bb_upper),
             !.bb_lower = ReplaceInf(frame.bb_lower), !.rsi = ReplaceInf(frame.rsi)]

RECURSIVE MinVal(_, _)
MinVal(col, n) ==
  IF n = 1 THEN col[1].val
  ELSE LET m == MinVal(col, n - 1) IN IF col[n].val < m THEN col[n].val ELSE m

RECURSIVE MaxVal(_, _)
MaxVal(col, n) ==
  IF n = 1 THEN col[1].val
  ELSE LET m == MaxVal(col, n - 1) IN IF col[n].val > m THEN col[n].val ELSE m

\* Mutant of Support: the first price instead of the smallest.
SupportFirst(frame) == Round(frame.price[1], CoarseDigits)

\* round(df["price"].min(), 2) and round(df["price"].max(), 2)
Support(frame) == Round(Float(MinVal(frame.price, Len(frame.price))), CoarseDigits)
Resistance(frame) == Round(Float(MaxVal(frame.price, Len(frame.price))), CoarseDigits)

\* round(latest[c], n) if latest[c] is not None else None
LatestField(x, ndigits) == IF x # None THEN Round(x, ndigits) ELSE None

\* round(s.iloc[-1], 4) if pd.notna(s.iloc[-1]) else None
LatestNotNa(x, ndigits) == IF IsNum(x) THEN Round(x, ndigits) ELSE None

\* Series.round(2).fillna(0).tolist()
RoundFillZero(col) ==
  Column([i \in 1..Len(col) |->
            LET r == Round(col[i], CoarseDigits)
            IN  IF IsNum(r) THEN r ELSE Float(0)], Len(col))

\* str(Timestamp) and strftime("%Y-%m-%d") of a millisecond timestamp.
TimestampStr(ms) == <<ms \div MsPerDay, ms % MsPerDay>>
DateStr(ms) == ms \div MsPerDay

History(frame) ==
  [dates |->
     Column([i \in 1..Len(frame.price) |-> DateStr(frame.timestamp[i])],
            Len(frame.price)),
   prices |->
     Column([i \in 1..Len(frame.price) |-> Round(frame.price[i], CoarseDigits)],
            Len(frame.price)),
   sma |-> RoundFillZero(frame.sma),
   bb_upper |-> RoundFillZero(frame.bb_upper),
   bb_lower |-> RoundFillZero(frame.bb_lower)]

\* Mutant of AnalysisResponse: news=[] as one list shared by all calls, each
\* call leaving an item behind.
AnalysisResponseSharedNews(symbol, frame) ==
  LET n == Len(frame.price)
      old == IF last.resp.status = 200 THEN last.resp.body.news ELSE <<>>
  IN  [symbol |-> symbol,
       date |-> TimestampStr(frame.timestamp[n]),
       price |-> Round(frame.price[n], FineDigits),
       sma |-> LatestField(frame.sma[n], FineDigits),
       ema |-> LatestField(frame.ema[n], FineDigits),
       bb_upper |-> LatestField(frame.bb_upper[n], FineDigits),
       bb_lower |-> LatestField(frame.bb_lower[n], FineDigits),
       rsi |-> LatestField(frame.rsi[n], CoarseDigits),
       macd |-> LatestNotNa(frame.macd[n], FineDigits),
       signal |-> LatestNotNa(frame.signal[n], FineDigits),
       support |-> Support(frame),
       resistance |-> Resistance(frame),
       gpt_summary |-> "GPT disabilitato.",
       news |-> Append(old, symbol),
       history |-> History(frame)]

\* The keyword arguments of AnalysisResponse(...), lines 114-136.
AnalysisResponse(symbol, frame) ==
  LET n == Len(frame.price)
  IN  [symbol |-> symbol,
       date |-> TimestampStr(frame.timestamp[n]),
       price |-> Round(frame.price[n], FineDigits),
       sma |-> LatestField(frame.sma[n], FineDigits),
       ema |-> LatestField(frame.ema[n], FineDigits),
       bb_upper |-> LatestField(frame.bb_upper[n], FineDigits),
       bb_lower |-> LatestField(frame.bb_lower[n], FineDigits),
       rsi |-> LatestField(frame.rsi[n], CoarseDigits),
       macd |-> LatestNotNa(frame.macd[n], FineDigits),
       signal |-> LatestNotNa(frame.signal[n], FineDigits),
       support |-> Support(frame),
       resistance |-> Resistance(frame),
       gpt_summary |-> "GPT disabilitato.",
       news |-> <<>>,
       history |-> History(frame)]

\* Fields AnalysisResponse declares float: pydantic refuses None for them
\* (a NaN is a float and passes).
FloatFields(r) ==
  <<r.price, r.sma, r.ema, r.bb_upper, r.bb_lower, r.rsi, r.macd, r.signal,
    r.support, r.resistance>>

Validates(r) == \A k \in 1..Len(FloatFields(r)) : FloatFields(r)[k] # None

NoBody == [absent |-> TRUE]
Ok(body) == [status |-> 200, detail |-> "", body |-> body]
Err(status, detail) == [status |-> status, detail |-> detail, body |-> NoBody]

\* ------------------------------------------------------- upstream payloads
\* Price steps between consecutive samples, and first prices, in units
\* (sub-cent steps; the low base lets falling series go negative).
Steps == {-300, 0, 400}
Bases == {200, 100400}
Patterns == [1..2 -> Steps]
Spacing == MsPerDay \div 2

\* Price of sample i: the steps of pat repeat up to sample flatFrom, after
\* which the price stays put.
RECURSIVE PriceAt(_, _, _, _)
PriceAt(base, pat, flatFrom, i) ==
  IF i = 1 THEN base
  ELSE PriceAt(base, pat, flatFrom, i - 1)
         + (IF i > flatFrom THEN 0 ELSE pat[((i - 2) % 2) + 1])

\* Timestamp of sample i of n; with swap, the last two stamps trade places.
StampAt(i, n, swap) ==
  LET j == IF swap /\ n >= 2 /\ i = n THEN n - 1
           ELSE IF swap /\ n >= 2 /\ i = n - 1 THEN n
           ELSE i
  IN  (j - 1) * Spacing

Samples(n, base, pat, flatFrom, swap) ==
  Column([i \in 1..n |-> [timestamp |-> StampAt(i, n, swap),
                   price |-> PriceAt(base, pat, flatFrom, i)]], n)

\* What GET /coins/{id}/market_chart may answer with status 200: a payload
\* with a "prices" list, or one without that key.
Payloads ==
  {[prices |-> Samples(n, base, pat, flatFrom, swap)] :
     n \in 0..MaxLen, base \in Bases, pat \in Patterns,
     flatFrom \in {2, MaxLen}, swap \in BOOLEAN}
  \cup {[status |-> "error"]}

\* GET /coins/list, and the symbols a client asks for.
Coins == <<[id |-> "bitcoin", symbol |-> "btc"]>>
Symbols == {"BTC", "bitcoin"}
Lower(symbol) == IF symbol = "BTC" THEN "btc" ELSE symbol

\* next((coin for coin in coins if coin["symbol"].lower() == symbol.lower()), None)
Matches(symbol) ==
  {k \in 1..Len(Coins) : Lower(Coins[k].symbol) = Lower(symbol)}
FirstMatch(symbol) ==
  Coins[CHOOSE k \in Matches(symbol) : \A j \in Matches(symbol) : k <= j]

\* -------------------------------------------------------------- handlers
\* A call's record: fetched says whether it got as far as reading a payload,
\* cached whether get_market_chart answered it from its cache.
NoCall ==
  [symbol |-> "", fetched |-> FALSE, cached |-> FALSE, prices |-> <<>>,
   resp |-> Err(0, "")]
Call(symbol, fetched, cached, prices, resp) ==
  [symbol |-> symbol, fetched |-> fetched, cached |-> cached, prices |-> prices,
   resp |-> resp]

Init ==
  /\ fillnaRaises \in BOOLEAN
  /\ idCache = <<>>
  /\ chartCache = <<>>
  /\ last = NoCall
  /\ df = NoFrame

\* data.get("prices", [])
PricesOf(data) == IF "prices" \in DOMAIN data THEN data.prices ELSE <<>>

\* Mutant of Insufficient: only the empty list is refused.
InsufficientEmptyOnly(prices) == Len(prices) = 0

\* Lines 95-97: not prices or len(prices) < 10
Insufficient(prices) == Len(prices) = 0 \/ Len(prices) < MinSamples

\* Lines 109-136 on the frame of lines 99-107.  The frames built here hold
\* no infinity, so df.replace changes nothing whatever pandas does with a
\* None replacement.  df.fillna(value=None) depends on the installed pandas,
\* which the repository does not pin: up to 2.x it raises ValueError ("Must
\* specify a fill 'value' or 'method'"), which leaves analyze as an
\* unhandled exception (500); later versions take it and leave the NaN in
\* place.  fillnaRaises is fixed at start-up to either.
Respond(symbol, frame) ==
  IF fillnaRaises THEN Err(500, "ValueError")
  ELSE LET r == AnalysisResponse(symbol, Replaced(frame))
       IN  IF Validates(r) THEN Ok(r) ELSE Err(500, "ValidationError")

\* Lines 95-136: the handler once the payload is in hand.
Finish(symbol, data, cached) ==
  LET prices == PricesOf(data)
      frame == Frame(prices)
  IN  IF Insufficient(prices)
      THEN /\ last' = Call(symbol, TRUE, cached, prices,
                           Err(422, "Dati insufficienti."))
           /\ df' = NoFrame
      ELSE /\ df' = frame
           /\ last' = Call(symbol, TRUE, cached, prices, Respond(symbol, frame))

\* resolve_symbol_to_id with the symbol already memoized.
Resolved(symbol) == symbol \in DOMAIN idCache

\* resolve_symbol_to_id, GET /coins/list answering with an HTTP error: 503.
AnalyzeListUnavailable(symbol) ==
  /\ ~Resolved(symbol)
  /\ last' = Call(symbol, FALSE, FALSE, <<>>, Err(503, "Limite raggiunto su CoinGecko."))
  /\ df' = NoFrame
  /\ UNCHANGED <<fillnaRaises, idCache, chartCache>>

\* resolve_symbol_to_id finding no coin with that symbol: 404, not memoized.
AnalyzeUnknownSymbol(symbol) ==
  /\ ~Resolved(symbol)
  /\ Matches(symbol) = {}
  /\ last' = Call(symbol, FALSE, FALSE, <<>>, Err(404, "Simbolo non trovato"))
  /\ df' = NoFrame
  /\ UNCHANGED <<fillnaRaises, idCache, chartCache>>

\* The coin id analyze works with, and the id cache after resolving it.
CoinId(symbol) ==
  IF Resolved(symbol) THEN idCache[symbol] ELSE FirstMatch(symbol).id
Memoized(symbol) ==
  [s \in DOMAIN idCache \cup {symbol} |-> IF s = symbol THEN CoinId(symbol) ELSE idCache[s]]

\* get_market_chart on a cache miss whose request fails: raise_for_status
\* propagates out of analyze, nothing is memoized for the chart.
AnalyzeChartUnavailable(symbol) ==
  /\ Resolved(symbol) \/ Matches(symbol) # {}
  /\ CoinId(symbol) \notin DOMAIN chartCache
  /\ idCache' = Memoized(symbol)
  /\ last' = Call(symbol, FALSE, FALSE, <<>>, Err(500, "HTTPError"))
  /\ df' = NoFrame
  /\ UNCHANGED <<fillnaRaises, chartCache>>

\* analyze with get_market_chart fetching (and memoizing) a payload.
AnalyzeFetch(symbol) ==
  /\ Resolved(symbol) \/ Matches(symbol) # {}
  /\ CoinId(symbol) \notin DOMAIN chartCache
  /\ \E data \in Payloads :
       /\ chartCache' = [c \in DOMAIN chartCache \cup {CoinId(symbol)} |->
                           IF c = CoinId(symbol) THEN data ELSE chartCache[c]]
       /\ Finish(symbol, data, FALSE)
  /\ idCache' = Memoized(symbol)
  /\ UNCHANGED fillnaRaises

\* analyze with get_market_chart answering from its cache.
AnalyzeCached(symbol) ==
  /\ Resolved(symbol) \/ Matches(symbol) # {}
  /\ CoinId(symbol) \in DOMAIN chartCache
  /\ Finish(symbol, chartCache[CoinId(symbol)], TRUE)
  /\ idCache' = Memoized(symbol)
  /\ UNCHANGED <<fillnaRaises, chartCache>>

Next ==
  \E symbol \in Symbols :
    \/ AnalyzeListUnavailable(symbol)
    \/ AnalyzeUnknownSymbol(symbol)
    \/ AnalyzeChartUnavailable(symbol)
    \/ AnalyzeFetch(symbol)
    \/ AnalyzeCached(symbol)

Spec == Init /\ [][Next]_vars

\* ------------------------------------------------------------------ claims
Accepted == last.fetched /\ Len(last.prices) >= MinSamples
Succeeded == last.fetched /\ last.resp.status = 200
Abs(x) == IF x < 0 THEN -x ELSE x

\* C1: a payload with fewer than 10 samples (empty or missing included) is
\* answered 422 "insufficient data", with no frame built and no body.
InsufficientRejected ==
  (last.fetched /\ Len(last.prices) < 10) =>
    /\ last.resp.status = 422
    /\ last.resp.body = NoBody
    /\ df = NoFrame

InsufficientWitness ==
  /\ last.fetched
  /\ Len(last.prices) = 5
  /\ last.resp.status = 422

\* C2: in the history of a response, a position where sma, bb_upper or
\* bb_lower is undefined carries the undefined marker None, never 0.
HistoryKeepsUndefined ==
  Succeeded =>
    \A i \in 1..Len(df.price) :
      /\ ~IsNum(df.sma[i]) => last.resp.body.history.sma[i] = None
      /\ ~IsNum(df.bb_upper[i]) => last.resp.body.history.bb_upper[i] = None
      /\ ~IsNum(df.bb_lower[i]) => last.resp.body.history.bb_lower[i] = None

\* The latest value the claim C3 expects for a column rounded to ndigits.
Snapshot(col, ndigits) ==
  IF IsNum(col[Len(col)]) THEN Round(col[Len(col)], ndigits) ELSE None

\* C3: every accepted series gets a successful response whose latest
\* fields are the rounded final values, or None where the final value is
\* undefined.
LatestSnapshot ==
  Accepted =>
    /\ last.resp.status = 200
    /\ last.resp.body.sma = Snapshot(df.sma, 4)
    /\ last.resp.body.ema = Snapshot(df.ema, 4)
    /\ last.resp.body.bb_upper = Snapshot(df.bb_upper, 4)
    /\ last.resp.body.bb_lower = Snapshot(df.bb_lower, 4)
    /\ last.resp.body.rsi = Snapshot(df.rsi, 2)
    /\ last.resp.body.macd = Snapshot(df.macd, 4)
    /\ last.resp.body.signal = Snapshot(df.signal, 4)

\* C4: with period 14 the RSI is undefined at every position below 14
\* (indexes 1..14 here).
RsiUndefinedBeforePeriod ==
  df # NoFrame =>
    \A i \in 1..Len(df.rsi) : i <= 14 => df.rsi[i] = NaN

\* C5: sma, bb_upper and bb_lower have the series' length, are undefined at
\* positions below 6 and numeric from 6 on, where sma is the mean of the
\* trailing 7 prices, upper - sma = sma - lower = 2 * stddev (the sample
\* standard deviation, to the nearest unit), and the three coincide when
\* the trailing 7 prices are identical.
BandsShape ==
  df # NoFrame =>
    LET n == Len(df.price)
    IN  /\ n >= 10
        /\ Len(df.sma) = n /\ Len(df.bb_upper) = n /\ Len(df.bb_lower) = n
        /\ \A i \in 1..n :
             IF i < 7
             THEN df.sma[i] = NaN /\ df.bb_upper[i] = NaN /\ df.bb_lower[i] = NaN
             ELSE /\ IsNum(df.sma[i]) /\ IsNum(df.bb_upper[i]) /\ IsNum(df.bb_lower[i])
                  /\ LET d == df.bb_upper[i].val - df.sma[i].val
                         sd == d \div 2
                         v == 4 * VarNum(df.price, i - 6, i)
                     IN  /\ 2 * Abs(7 * df.sma[i].val - SumVals(df.price, i - 6, i)) <= 7
                         /\ d >= 0 /\ d = 2 * sd
                         /\ df.sma[i].val - df.bb_lower[i].val = d
                         /\ sd = 0 \/ 42 * (2 * sd - 1) * (2 * sd - 1) <= v
                         /\ v < 42 * (2 * sd + 1) * (2 * sd + 1)
                         /\ (\A j \in (i - 6)..i : df.price[j] = df.price[i]) =>
                              /\ df.bb_upper[i] = df.sma[i]
                              /\ df.bb_lower[i] = df.sma[i]
                              /\ df.sma[i] = df.price[i]

\* A frame with an open band at one position and a collapsed band (seven
\* identical trailing prices in a series that is not constant) at another.
BandsWitness ==
  /\ df # NoFrame
  /\ \E i \in 7..Len(df.price) : df.bb_upper[i].val > df.sma[i].val
  /\ \E i \in 7..Len(df.price) :
       /\ df.bb_upper[i] = df.bb_lower[i]
       /\ df.price[i] # df.price[1]

\* C6: where the rolling means exist, meanLoss = 0 with meanGain > 0 gives
\* an RSI of exactly 100, meanLoss = meanGain = 0 gives NaN, which the
\* response shows neither as 0 nor as 50; the division never faults.
RsiDegenerate ==
  df # NoFrame =>
    LET gain == RsiGain(df.price, 14)
        loss == RsiLoss(df.price, 14)
        n == Len(df.price)
    IN  /\ \A i \in 1..n :
             /\ df.rsi[i].tag \in {"float", "nan"}
             /\ (IsNum(gain[i]) /\ IsNum(loss[i]) /\ loss[i].val = 0) =>
                  IF gain[i].val > 0 THEN df.rsi[i] = Float(100 * Unit)
                  ELSE df.rsi[i] = NaN
        /\ (Succeeded /\ df.rsi[n] = NaN) =>
             last.resp.body.rsi \notin {Float(0), Float(50 * Unit)}
        /\ last.resp.detail # "ZeroDivisionError"

\* A response whose series never fell over the last 14 deltas but rose.
RsiSaturatedWitness ==
  /\ Succeeded
  /\ Len(df.price) >= 14
  /\ RsiLoss(df.price, 14)[Len(df.price)] = Float(0)
  /\ RsiGain(df.price, 14)[Len(df.price)].val > 0
  /\ last.resp.body.rsi = Float(100 * Unit)

\* y[i] = a * x[i] + (1 - a) * y[i - 1] with a = 2 / (span + 1), to the
\* nearest unit.
Follows(y, x, span, i) ==
  2 * Abs((span + 1) * y[i].val - (2 * x[i].val + (span - 1) * y[i - 1].val))
    <= span + 1

\* C7: for every non-empty series, EMA(7), MACD(12, 26) and Signal(9) are
\* numeric at every position, EMA[0] = price[0], MACD[0] = 0,
\* Signal[0] = MACD[0], and from position 1 on each EMA follows the
\* recurrence (MACD being the difference of its two EMAs).
EmaEverywhere ==
  (last.fetched /\ Len(last.prices) >= 1) =>
    LET f == Frame(last.prices)
        n == Len(last.prices)
        short == Ewm(f.price, 12)
        long == Ewm(f.price, 26)
    IN  /\ Len(f.ema) = n /\ Len(f.macd) = n /\ Len(f.signal) = n
        /\ \A i \in 1..n : IsNum(f.ema[i]) /\ IsNum(f.macd[i]) /\ IsNum(f.signal[i])
        /\ f.ema[1] = Float(last.prices[1].price)
        /\ f.macd[1] = Float(0)
        /\ f.signal[1] = f.macd[1]
        /\ \A i \in 2..n :
             /\ Follows(f.ema, f.price, 7, i)
             /\ Follows(short, f.price, 12, i)
             /\ Follows(long, f.price, 26, i)
             /\ f.macd[i].val = short[i].val - long[i].val
             /\ Follows(f.signal, f.macd, 9, i)

\* A frame whose EMA, MACD and signal all moved away from their seeds.
EmaWitness ==
  /\ df # NoFrame
  /\ df.ema[Len(df.ema)] # df.ema[1]
  /\ df.macd[Len(df.macd)].val < 0
  /\ df.signal[Len(df.signal)].val < 0

\* C8 as stated: support <= every price <= resistance, for the input
\* prices, the reported latest price and the reported history prices, and
\* support = resistance only for a constant series.
SupportBelowResistanceAbove ==
  Succeeded =>
    LET b == last.resp.body
    IN  /\ \A i \in 1..Len(df.price) :
             /\ b.support.val <= df.price[i].val
             /\ df.price[i].val <= b.resistance.val
             /\ b.support.val <= b.history.prices[i].val
             /\ b.history.prices[i].val <= b.resistance.val
        /\ b.support.val <= b.price.val /\ b.price.val <= b.resistance.val
        /\ b.support = b.resistance =>
             \A i \in 1..Len(df.price) : df.price[i] = df.price[1]

\* C8 as amended: support and resistance are the smallest and the largest
\* price rounded to 2 decimals; they bracket every reported history price
\* (rounded to 2 decimals too), and every input price and the 4-decimal
\* latest price to within the rounding error 0.005; they coincide exactly
\* when all prices round to the same 2-decimal value.
SupportResistanceRounded ==
  Succeeded =>
    LET b == last.resp.body
        n == Len(df.price)
        half == Unit \div 200
    IN  /\ \E i \in 1..n :
             /\ b.support = Round(df.price[i], 2)
             /\ \A j \in 1..n : df.price[i].val <= df.price[j].val
        /\ \E i \in 1..n :
             /\ b.resistance = Round(df.price[i], 2)
             /\ \A j \in 1..n : df.price[j].val <= df.price[i].val
        /\ \A i \in 1..n :
             /\ b.support.val <= b.history.prices[i].val
             /\ b.history.prices[i].val <= b.resistance.val
             /\ b.support.val - half <= df.price[i].val
             /\ df.price[i].val <= b.resistance.val + half
        /\ b.support.val - half <= b.price.val
        /\ b.price.val <= b.resistance.val + half
        /\ b.support = b.resistance <=>
             \A i \in 1..n : b.history.prices[i] = b.history.prices[1]

\* A response whose largest price lies above the reported resistance.
SupportResistanceWitness ==
  /\ Succeeded
  /\ \E i \in 1..Len(df.price) : df.price[i].val > last.resp.body.resistance.val
  /\ last.resp.body.support.val < last.resp.body.resistance.val

\* A negative price, or a timestamp below its predecessor.
Malformed(prices) ==
  \/ \E i \in 1..Len(prices) : prices[i].price < 0
  \/ \E i \in 2..Len(prices) : prices[i].timestamp < prices[i - 1].timestamp

\* C9: a series with a malformed sample is rejected with an error; no
\* successful response is computed from it.
MalformedRejected ==
  (last.fetched /\ Malformed(last.prices)) => last.resp.status # 200

\* C10: a call on the same symbol and the same input series as the call
\* before it yields the same outcome, and no call changes a payload that
\* get_market_chart has memoized.
SameInputSameOutput ==
  [][/\ (last.fetched /\ last'.fetched /\ last'.symbol = last.symbol
           /\ last'.prices = last.prices) => last'.resp = last.resp
     /\ \A c \in DOMAIN chartCache :
          c \in DOMAIN chartCache' /\ chartCache'[c] = chartCache[c]]_vars

\* A successful response that was computed from the memoized payload.
CachedCallWitness ==
  /\ Succeeded
  /\ last.cached
  /\ "bitcoin" \in DOMAIN chartCache
  /\ last.prices = chartCache["bitcoin"].prices

====
